---- MODULE Spec2Model ----
(***************************************************************************)
(* Model of the enterprise file-management backend                         *)
(* (attached_assets/app_1749787282845.py): the upload pipeline             *)
(* upload_file, the audit recorder log_audit_event, the retention sweep    *)
(* apply_retention_policies, the role guard requires_role, the file        *)
(* permissions, the content task process_file_content and login, over a    *)
(* relational store (committed rows), a file storage, the search index and *)
(* the application log.                                                    *)
(*                                                                         *)
(* Every action is one stretch of a handler between two points where its   *)
(* effects become visible to other requests (a commit, a file write, a     *)
(* file removal, a task hand-off).  A request that crashes simply takes no *)
(* further step, so every reachable state is a state another request may   *)
(* observe.                                                                *)
(***************************************************************************)
EXTENDS Integers, Sequences, FiniteSets, TLC

(* ---------------------------- bounds ----------------------------------- *)
MaxBatch == 2          \* files per upload request
MaxNow == 1            \* the clock (in days) runs from 0 to MaxNow
MaxBatchConcurrent == 1  \* files per request when two requests run together
MaxGrants == 2         \* FilePermission rows granted after the uploads
MaxAttempts == 3       \* login attempts made
MaxLoginTicks == 1     \* steps of the clock of the login attempts

(* ------------------------ program constants ---------------------------- *)
RETENTION_POLICY_DAYS == 2555
MAX_FAILED_ATTEMPTS == 5
LOCKOUT_MINUTES == 30

ALLOWED_EXTENSIONS ==
    { "pdf", "doc", "docx", "xls", "xlsx", "ppt", "pptx", "txt", "rtf", "odt",
      "png", "jpg", "jpeg", "gif", "bmp", "tiff", "svg", "webp",
      "mp4", "avi", "mov", "wmv", "flv", "mkv", "webm",
      "mp3", "wav", "flac", "aac", "ogg", "m4a",
      "zip", "rar", "7z", "tar", "gz", "bz2",
      "csv", "json", "xml", "yaml", "sql",
      "py", "js", "html", "css", "java", "cpp", "c", "php", "rb", "go" }

UPLOAD_FOLDER == "enterprise_files"

(* --------------------------- input sets -------------------------------- *)
Workers == {"w1"}                  \* concurrent upload requests
ConcurrentWorkers == {"w1", "w2"}  \* two requests in flight together
Users == {"u1"}                    \* session['user_id'] of a request
Organizations == {"o1"}            \* the organizations of the store

\* session['organization_id'] of the request of a user
organization_id(user) == "o1"

\* Organization.settings: the retention policy an organization has set for
\* its own files, here a month
OrganizationSettings ==
    [o \in Organizations |-> [retention_policy_days |-> 30]]
P1 == <<"p", 1>>                   \* ids of the rows present before the run
P2 == <<"p", 2>>
PreIds == {P1, P2}
FormClassifications == {"internal"}

\* the values FileMetadata.classification is documented to take
CLASSIFICATIONS == {"public", "internal", "confidential", "restricted"}

\* classifications a client can send in the form: the default, one that
\* asks for secure deletion, and one that is no classification
AllClassifications == {"internal", "restricted", "secret"}
FolderPaths == { <<"docs">> }      \* request.form['folder_path'], see below

\* folder paths a client can send: docs, /docs/ and ../etc
AllFolderPaths ==
    { <<"docs">>, <<"/", "docs", "/">>, <<"..", "/", "etc">> }

\* A filename is a sequence of one-character strings.
FileNames ==
    { <<>>,                        \* ''      (empty part of the form)
      <<"a", ".", "C">>,           \* a.C     allowed after lower()
      <<"a", ".", "x">> }          \* a.x     not allowed

\* The bytes of a file.
Contents == { <<"h", "i">> }

\* An incoming file of the multipart batch: its name and its bytes.
Incoming == [filename : FileNames, content : Contents]

\* Further names a client can send: one that is nothing but an extension.
AllFileNames == FileNames \cup { <<".", "c">> }
AllIncoming == [filename : AllFileNames, content : Contents]

(* ----------------------- string helpers -------------------------------- *)
Range(s) == { s[i] : i \in DOMAIN s }

RECURSIVE Str(_)
Str(s) == IF s = <<>> THEN "" ELSE Head(s) \o Str(Tail(s))

\* str.lower() on one character
LowerChar(ch) == IF ch = "C" THEN "c" ELSE IF ch = "A" THEN "a" ELSE ch

lower(s) == [ i \in DOMAIN s |-> LowerChar(s[i]) ]

\* index of the last '.' of s (0 when there is none)
LastDot(s) ==
    IF "." \in Range(s)
    THEN CHOOSE i \in DOMAIN s : s[i] = "." /\ \A j \in DOMAIN s : s[j] = "." => j <= i
    ELSE 0

\* s.rsplit('.', 1)[1] for an s that contains '.'
RSplitExt(s) == SubSeq(s, LastDot(s) + 1, Len(s))

\* variant of the check: any name with a dot passes
allowed_file_AnyExtension(filename) == "." \in Range(filename)

allowed_file(filename) ==
    /\ "." \in Range(filename)
    /\ Str(lower(RSplitExt(filename))) \in ALLOWED_EXTENSIONS

\* str.strip("._")
RECURSIVE StripLeft(_)
StripLeft(s) ==
    IF s /= <<>> /\ Head(s) \in {".", "_"} THEN StripLeft(Tail(s)) ELSE s

RECURSIVE StripRight(_)
StripRight(s) ==
    IF s /= <<>> /\ s[Len(s)] \in {".", "_"}
    THEN StripRight(SubSeq(s, 1, Len(s) - 1)) ELSE s

\* werkzeug's secure_filename on names without separators or whitespace:
\* the name with leading and trailing '.' and '_' removed.
secure_filename(s) == StripRight(StripLeft(s))

\* secure_name.rsplit('.', 1)[1].lower() if '.' in secure_name else ''
FileExtension(secure_name) ==
    IF "." \in Range(secure_name) THEN Str(lower(RSplitExt(secure_name))) ELSE ""

(* ----------------------------- state ----------------------------------- *)
VARIABLES
    now,          \* datetime.datetime.utcnow(), in days
    db_files,     \* committed rows of file_metadata
    db_perms,     \* committed rows of file_permissions
    db_audit,     \* committed rows of audit_logs, in commit order
    storage,      \* the file system: path of each artifact |-> its bytes
    task_queue,   \* file ids handed to process_file_content.delay
    es_index,     \* documents indexed in Elasticsearch (best effort)
    app_log,      \* distinct records written through app.logger
    used_ids,     \* uuid4 values already drawn
    up,           \* per upload request: position and locals of upload_file
    sw,           \* position and locals of apply_retention_policies
    rq,           \* position and locals of a request to a role-guarded view
    gr,           \* FilePermission rows asked for and not yet inserted
    lg            \* the account, the sessions and the login attempts in flight

vars == <<now, db_files, db_perms, db_audit, storage, task_queue, es_index,
          app_log, used_ids, up, sw, rq, gr, lg>>

\* the state of the handlers other than upload_file and the sweep
aux == <<rq, gr, lg>>

store == <<db_files, db_perms, db_audit, storage, task_queue>>

(* ----------------------------- rows ------------------------------------ *)
\* A folder path is a sequence of tokens: "/" is the separator, any other
\* token one path component ("." and ".." included).  str.strip('/'):
RECURSIVE StripSlashLeft(_)
StripSlashLeft(s) ==
    IF s /= <<>> /\ Head(s) = "/" THEN StripSlashLeft(Tail(s)) ELSE s

RECURSIVE StripSlashRight(_)
StripSlashRight(s) ==
    IF s /= <<>> /\ s[Len(s)] = "/"
    THEN StripSlashRight(SubSeq(s, 1, Len(s) - 1)) ELSE s

StripSlashes(s) == StripSlashRight(StripSlashLeft(s))

\* os.path.join(app.config['UPLOAD_FOLDER'], folder_path.strip('/')) joined
\* with the stored filename f"{file_id}.{file_extension}"
FilePath(folder_path, file_id, file_extension) ==
    [root |-> UPLOAD_FOLDER, folder |-> StripSlashes(folder_path),
     stored |-> <<file_id, file_extension>>]

\* the components of a folder path, without the separators
Components(s) == SelectSeq(s, LAMBDA t : t /= "/")

\* os.path.normpath on a relative path: "." is dropped and ".." takes back
\* the component before it; a ".." with nothing to take back stays
RECURSIVE NormPath(_, _)
NormPath(done, rest) ==
    IF rest = <<>> THEN done
    ELSE IF Head(rest) = "." THEN NormPath(done, Tail(rest))
    ELSE IF Head(rest) = ".." /\ done /= <<>> /\ done[Len(done)] /= ".."
         THEN NormPath(SubSeq(done, 1, Len(done) - 1), Tail(rest))
    ELSE NormPath(Append(done, Head(rest)), Tail(rest))

\* the path lies under its root: relative to the root it does not begin
\* with ".."
InsideRoot(path) ==
    LET rel == NormPath(<<>>, Components(path.folder))
    IN  rel = <<>> \/ Head(rel) /= ".."

\* the file system after the bytes are written to path
Write(fs, path, bytes) ==
    [ q \in DOMAIN fs \cup {path} |-> IF q = path THEN bytes ELSE fs[q] ]

\* the file system after os.remove(path)
Unlink(fs, path) == [ q \in DOMAIN fs \ {path} |-> fs[q] ]

\* hashlib.sha256 of the bytes, as its hexdigest: a digest that tells any two
\* contents of the model apart and is never the empty string
SHA256(bytes) == <<"sha256", bytes>>

\* variant of the checksum: the placeholder checksum='' is left in the row
calculate_checksum_Placeholder(fs, file_path) == <<>>

\* FileMetadata.calculate_checksum(file_path): the digest of the bytes read
\* back from the file, chunk after chunk
calculate_checksum(fs, file_path) == SHA256(fs[file_path])

FullGrant(file_id, user_id, pid) ==
    [id |-> pid, file_id |-> file_id, user_id |-> user_id,
     can_read |-> TRUE, can_write |-> TRUE, can_delete |-> TRUE,
     can_share |-> TRUE, can_admin |-> TRUE, granted_by_id |-> user_id,
     expires_at |-> <<>>]

AuditEntry(user_id, event_type, action, resource_type, resource_id, details) ==
    [user_id |-> user_id, event_type |-> event_type, action |-> action,
     resource_type |-> resource_type, resource_id |-> resource_id,
     details |-> details]

PermsOf(perms, file_id) == { p \in perms : p.file_id = file_id }

FileIds(files) == { f.id : f \in files }

LogRecord(ctx, level, msg) == [ctx |-> ctx, level |-> level, msg |-> msg]

(* ------------------------- log_audit_event ----------------------------- *)
\* What one call of log_audit_event can do:
\*   ok                the row is committed and indexed
\*   ok_es_failed      the row is committed, es.index raises (warning only)
\*   raise_before_add  building the AuditLog row raises (session / request)
\*   raise_on_commit   db.session.commit() raises, the session rolls back
LogOutcomes == {"ok", "ok_es_failed", "raise_before_add", "raise_on_commit"}

LogCommitted(outcome) == outcome \in {"ok", "ok_es_failed"}

\* variant of the recorder: one row per action, replaced by the new entry
LogAuditRows_Upsert(audit, entry, outcome) ==
    IF LogCommitted(outcome)
    THEN Append(SelectSeq(audit, LAMBDA e : e.action /= entry.action), entry)
    ELSE audit

\* audit_logs after the call
LogAuditRows(audit, entry, outcome) ==
    IF LogCommitted(outcome) THEN Append(audit, entry) ELSE audit

\* the search index after the call
LogAuditIndex(index, entry, outcome) ==
    IF outcome = "ok"
    THEN index \cup { [index |-> "audit-logs", action |-> entry.action,
                       resource_id |-> entry.resource_id] }
    ELSE index

\* the application log after the call: every exception is caught and logged,
\* none reaches the caller
LogAuditLog(log, ctx, outcome) ==
    CASE outcome = "ok" -> log
      [] outcome = "ok_es_failed" ->
            log \cup { LogRecord(ctx, "warning", "Failed to index audit log") }
      [] OTHER ->
            log \cup { LogRecord(ctx, "error", "Failed to log audit event") }

\* whether the call raises to its caller
LogAuditRaises(outcome) == FALSE

(* ----------------------------- upload_file ----------------------------- *)
\* variant of the id: the same value at every draw
NewId_Repeated(used) == <<"f", 1>>

\* str(uuid.uuid4()): a value never drawn before
NewId(used) == <<"f", Cardinality(used) + 1>>

NoFile == [filename |-> <<>>, content |-> <<>>]

NoCur == [file_id |-> <<>>, original_name |-> <<>>, secure_name |-> <<>>,
          file_extension |-> "", file_size |-> 0]

NoResp == [status |-> 0, files |-> <<>>]

\* n is len(files), i the position of the loop, file the loop variable; the
\* parts of the multipart body are read one by one as the loop reaches them,
\* files being the parts the body of this request can hold
IdleUpload ==
    [pc |-> "idle", user |-> "", n |-> 0, files |-> {}, folder_path |-> <<>>,
     classification |-> "", i |-> 1, file |-> NoFile,
     uploaded_files |-> <<>>, cur |-> NoCur, resp |-> NoResp]

\* except Exception as e: app.logger.error(f"Upload error: {e}"); return 500
UploadFailed(w) ==
    /\ up' = [up EXCEPT ![w].pc = "done",
                        ![w].resp = [status |-> 500, files |-> <<>>]]
    /\ app_log' = app_log \cup { LogRecord(w, "error", "Upload error") }

\* the request arrives: session user, request.files, request.form, with a
\* folder_path and a classification out of the given sets and at most max_n
\* files out of incoming
UploadStartFrom(w, folder_paths, classifications, incoming, max_n) ==
    /\ up[w].pc = "idle"
    /\ \E u \in Users, n \in 1..max_n, fp \in folder_paths, c \in classifications :
          up' = [up EXCEPT ![w].pc = "loop", ![w].user = u, ![w].n = n,
                           ![w].files = incoming, ![w].folder_path = fp, ![w].classification = c,
                           ![w].i = 1, ![w].uploaded_files = <<>>]
    /\ UNCHANGED <<aux, now, store, es_index, app_log, used_ids, sw>>

UploadStart(w) == UploadStartFrom(w, FolderPaths, FormClassifications, Incoming, MaxBatch)

\* if 'files' not in request.files: return 400
UploadNoFiles(w) ==
    /\ up[w].pc = "idle"
    /\ up' = [up EXCEPT ![w].pc = "done",
                        ![w].resp = [status |-> 400, files |-> <<>>]]
    /\ UNCHANGED <<aux, now, store, es_index, app_log, used_ids, sw>>

\* the loop is exhausted: return the list of uploaded files
UploadReturn(w) ==
    /\ up[w].pc = "loop"
    /\ up[w].i > up[w].n
    /\ up' = [up EXCEPT ![w].pc = "done",
                        ![w].resp = [status |-> 200, files |-> up[w].uploaded_files]]
    /\ UNCHANGED <<aux, now, store, es_index, app_log, used_ids, sw>>

\* if file.filename == '': continue
UploadSkipEmpty(w) ==
    /\ up[w].pc = "loop"
    /\ up[w].i <= up[w].n
    /\ \E file \in up[w].files :
          /\ file.filename = <<>>
          /\ up' = [up EXCEPT ![w].file = file, ![w].i = @ + 1]
    /\ UNCHANGED <<aux, now, store, es_index, app_log, used_ids, sw>>

\* variant of the rejection: the error response also lists the files
\* committed so far
UploadReject_PartialReport(w) ==
    /\ up[w].pc = "loop"
    /\ up[w].i <= up[w].n
    /\ \E file \in up[w].files :
          /\ file.filename /= <<>>
          /\ ~ allowed_file(file.filename)
          /\ up' = [up EXCEPT ![w].file = file, ![w].pc = "done",
                              ![w].resp = [status |-> 400,
                                           files |-> up[w].uploaded_files]]
    /\ UNCHANGED <<aux, now, store, es_index, app_log, used_ids, sw>>

\* if not allowed_file(file.filename): return 400
UploadReject(w) ==
    /\ up[w].pc = "loop"
    /\ up[w].i <= up[w].n
    /\ \E file \in up[w].files :
          /\ file.filename /= <<>>
          /\ ~ allowed_file(file.filename)
          /\ up' = [up EXCEPT ![w].file = file, ![w].pc = "done",
                              ![w].resp = [status |-> 400, files |-> <<>>]]
    /\ UNCHANGED <<aux, now, store, es_index, app_log, used_ids, sw>>

\* What os.makedirs and file.save(file_path) can do with the bytes of a file:
\* write them all; raise before the file exists; raise after the file was
\* created and only a part of the bytes was written.
SaveOutcomes(file) ==
    { [raises |-> FALSE, written |-> TRUE, bytes |-> file.content],
      [raises |-> TRUE, written |-> FALSE, bytes |-> <<>>] }
    \cup { [raises |-> TRUE, written |-> TRUE, bytes |-> SubSeq(file.content, 1, k)] :
             k \in 0..(Len(file.content) - 1) }

\* lines 816-834: name the artifact, create the folder, file.save(file_path),
\* os.path.getsize(file_path)
UploadSave(w) ==
    /\ up[w].pc = "loop"
    /\ up[w].i <= up[w].n
    /\ \E file \in up[w].files : \E outcome \in SaveOutcomes(file) :
          /\ file.filename /= <<>>
          /\ allowed_file(file.filename)
          /\ LET file_id == NewId(used_ids)
                 secure_name == secure_filename(file.filename)
                 file_extension == FileExtension(secure_name)
                 file_path == FilePath(up[w].folder_path, file_id, file_extension)
             IN  /\ used_ids' = used_ids \cup {file_id}
                 /\ storage' = IF outcome.written
                               THEN Write(storage, file_path, outcome.bytes)
                               ELSE storage
                 /\ IF ~ outcome.raises
                    THEN /\ up' = [up EXCEPT ![w].pc = "saved", ![w].file = file,
                                      ![w].cur = [file_id |-> file_id,
                                                  original_name |-> file.filename,
                                                  secure_name |-> secure_name,
                                                  file_extension |-> file_extension,
                                                  file_size |-> Len(storage'[file_path])]]
                         /\ UNCHANGED app_log
                    ELSE /\ up' = [up EXCEPT ![w].pc = "done", ![w].file = file,
                                      ![w].resp = [status |-> 500, files |-> <<>>]]
                         /\ app_log' = app_log \cup { LogRecord(w, "error", "Upload error") }
    /\ UNCHANGED <<aux, now, db_files, db_perms, db_audit, task_queue, es_index, sw>>

\* the FileMetadata row built at lines 837-859
NewFileMeta(w) ==
    [id |-> up[w].cur.file_id,
     organization_id |-> organization_id(up[w].user),
     name |-> up[w].cur.secure_name,
     original_name |-> up[w].cur.original_name,
     file_path |-> FilePath(up[w].folder_path, up[w].cur.file_id, up[w].cur.file_extension),
     file_type |-> up[w].cur.file_extension,
     size |-> up[w].cur.file_size,
     checksum |-> calculate_checksum(storage, FilePath(up[w].folder_path,
                                        up[w].cur.file_id, up[w].cur.file_extension)),
     classification |-> up[w].classification,
     legal_hold |-> FALSE,
     retention_until |-> now + RETENTION_POLICY_DAYS,
     created_by_id |-> up[w].user]

\* db.session.add(file_meta); db.session.commit()
UploadCommitMeta(w) ==
    /\ up[w].pc = "saved"
    /\ \E outcome \in {"ok", "raise"} :
          IF outcome = "ok"
          THEN /\ db_files' = db_files \cup { NewFileMeta(w) }
               /\ up' = [up EXCEPT ![w].pc = "meta_committed"]
               /\ UNCHANGED app_log
          ELSE /\ UploadFailed(w)
               /\ UNCHANGED db_files
    /\ UNCHANGED <<aux, now, db_perms, db_audit, storage, task_queue, es_index, used_ids, sw>>

\* variant of the creator's grant: granted to, and by, nobody
CreatorPermission_NoUser(w) ==
    FullGrant(up[w].cur.file_id, "None", <<"perm", up[w].cur.file_id>>)

\* the FilePermission row built at lines 865-874
CreatorPermission(w) ==
    FullGrant(up[w].cur.file_id, up[w].user, <<"perm", up[w].cur.file_id>>)

\* db.session.add(permission); db.session.commit()
UploadCommitPerm(w) ==
    /\ up[w].pc = "meta_committed"
    /\ \E outcome \in {"ok", "raise"} :
          IF outcome = "ok"
          THEN /\ db_perms' = db_perms \cup { CreatorPermission(w) }
               /\ up' = [up EXCEPT ![w].pc = "perm_committed"]
               /\ UNCHANGED app_log
          ELSE /\ UploadFailed(w)
               /\ UNCHANGED db_perms
    /\ UNCHANGED <<aux, now, db_files, db_audit, storage, task_queue, es_index, used_ids, sw>>

\* process_file_content.delay(file_meta.id)
UploadDispatch(w) ==
    /\ up[w].pc = "perm_committed"
    /\ \E outcome \in {"ok", "raise"} :
          IF outcome = "ok"
          THEN /\ task_queue' = task_queue \cup { up[w].cur.file_id }
               /\ up' = [up EXCEPT ![w].pc = "dispatched"]
               /\ UNCHANGED app_log
          ELSE /\ UploadFailed(w)
               /\ UNCHANGED task_queue
    /\ UNCHANGED <<aux, now, db_files, db_perms, db_audit, storage, es_index, used_ids, sw>>

UploadAuditEntry(w) ==
    AuditEntry(up[w].user, "file_management", "file_uploaded", "file",
               up[w].cur.file_id,
               [reason |-> "", file_name |-> up[w].cur.original_name,
                file_size |-> up[w].cur.file_size])

\* log_audit_event(...); uploaded_files.append({...}); next file
UploadAudit(w) ==
    /\ up[w].pc = "dispatched"
    /\ \E outcome \in LogOutcomes :
          /\ db_audit' = LogAuditRows(db_audit, UploadAuditEntry(w), outcome)
          /\ es_index' = LogAuditIndex(es_index, UploadAuditEntry(w), outcome)
          /\ app_log' = LogAuditLog(app_log, w, outcome)
          /\ IF LogAuditRaises(outcome)
             THEN up' = [up EXCEPT ![w].pc = "done",
                                   ![w].resp = [status |-> 500, files |-> <<>>]]
             ELSE up' = [up EXCEPT ![w].pc = "loop", ![w].i = @ + 1,
                                   ![w].uploaded_files = Append(@, up[w].cur.file_id),
                                   ![w].cur = NoCur]
    /\ UNCHANGED <<aux, now, db_files, db_perms, storage, task_queue, used_ids, sw>>

\* the steps of a request after its arrival
UploadBody(w) ==
    \/ UploadNoFiles(w)
    \/ UploadReturn(w)
    \/ UploadSkipEmpty(w)
    \/ UploadReject(w)
    \/ UploadSave(w)
    \/ UploadCommitMeta(w)
    \/ UploadCommitPerm(w)
    \/ UploadDispatch(w)
    \/ UploadAudit(w)

UploadStep(w) == UploadStart(w) \/ UploadBody(w)

(* ---------------------------- requires_role ---------------------------- *)
\* User.role of the session user, and the role a view is decorated with;
\* "guest" and "auditor" are names the hierarchy does not know
UserRoles == {"user", "manager", "admin", "super_admin", "guest"}

RequiredRoles == {"user", "manager", "admin", "super_admin", "auditor"}

\* role_hierarchy.get(role, default)
RoleLevel(role, default) ==
    CASE role = "user" -> 0
      [] role = "manager" -> 1
      [] role = "admin" -> 2
      [] role = "super_admin" -> 3
      [] OTHER -> default

user_level(role) == RoleLevel(role, 0)

\* variant of the required level: an unknown role counts as the lowest
required_level_DefaultLowest(required_role) == RoleLevel(required_role, 0)

required_level(required_role) == RoleLevel(required_role, 99)

IdleRole ==
    [pc |-> "idle", user |-> "", user_role |-> "", required_role |-> "",
     status |-> 0]

\* log_audit_event(user.id, 'access_denied', 'insufficient_role',
\*                 details={'required_role': ..., 'user_role': ...})
RoleAuditEntry(user, required_role, role) ==
    AuditEntry(user, "access_denied", "insufficient_role", "None", <<>>,
               [required_role |-> required_role, user_role |-> role])

\* a request to a view decorated with requires_role(required_role) arrives
\* with a session user that exists
RoleRequest ==
    /\ rq.pc = "idle"
    /\ \E u \in Users, role \in UserRoles, required_role \in RequiredRoles :
          rq' = [rq EXCEPT !.pc = "check", !.user = u, !.user_role = role,
                           !.required_role = required_role]
    /\ UNCHANGED <<gr, lg, now, store, es_index, app_log, used_ids, up, sw>>

\* 'user_id' not in session, or no such user: return 401
RoleUnauthenticated ==
    /\ rq.pc = "idle"
    /\ rq' = [rq EXCEPT !.pc = "done", !.status = 401]
    /\ UNCHANGED <<gr, lg, now, store, es_index, app_log, used_ids, up, sw>>

\* lines 589-597: compare the levels; on a denial write the audit entry,
\* otherwise call the view
RoleCheck ==
    /\ rq.pc = "check"
    /\ IF user_level(rq.user_role) < required_level(rq.required_role)
       THEN \E outcome \in LogOutcomes :
               LET entry == RoleAuditEntry(rq.user, rq.required_role, rq.user_role)
               IN  /\ db_audit' = LogAuditRows(db_audit, entry, outcome)
                   /\ es_index' = LogAuditIndex(es_index, entry, outcome)
                   /\ app_log' = LogAuditLog(app_log, "role", outcome)
                   /\ rq' = [rq EXCEPT !.pc = IF LogAuditRaises(outcome)
                                               THEN "raised" ELSE "denied"]
       ELSE /\ rq' = [rq EXCEPT !.pc = "done", !.status = 200]
            /\ UNCHANGED <<db_audit, es_index, app_log>>
    /\ UNCHANGED <<gr, lg, now, db_files, db_perms, storage, task_queue, used_ids, up, sw>>

\* return jsonify({'error': 'Insufficient permissions'}), 403
RoleDenied ==
    /\ rq.pc = "denied"
    /\ rq' = [rq EXCEPT !.pc = "done", !.status = 403]
    /\ UNCHANGED <<gr, lg, now, store, es_index, app_log, used_ids, up, sw>>

RoleStep == RoleRequest \/ RoleUnauthenticated \/ RoleCheck \/ RoleDenied

(* ------------------------- file permissions --------------------------- *)
Capabilities == {"read", "write", "delete", "share", "admin"}

\* the capability flag of a FilePermission row
Flag(p, action) ==
    CASE action = "read" -> p.can_read
      [] action = "write" -> p.can_write
      [] action = "delete" -> p.can_delete
      [] action = "share" -> p.can_share
      [] action = "admin" -> p.can_admin

\* User.is_admin
is_admin(role) == role \in {"admin", "super_admin"}

\* variant of the listing: a row of the user without can_read hides the file
IndexLists_ReadOffHides(user_id, role, file_meta, perms) ==
    \/ is_admin(role)
    \/ /\ \E p \in perms :
             /\ p.file_id = file_meta.id
             /\ (p.user_id = user_id \/ file_meta.created_by_id = user_id)
       /\ ~ \E p \in perms :
               p.file_id = file_meta.id /\ p.user_id = user_id /\ ~ p.can_read

\* index(), lines 691-705: whether the file is among the files selected for
\* the user (all files for an admin, else the join with FilePermission)
IndexLists(user_id, role, file_meta, perms) ==
    \/ is_admin(role)
    \/ \E p \in perms :
          /\ p.file_id = file_meta.id
          /\ (p.user_id = user_id \/ file_meta.created_by_id = user_id)

\* a row is active if expires_at is null (<<>>) or in the future
Active(p, t) == p.expires_at = <<>> \/ p.expires_at[1] > t

\* the permission resolver: an admin may do everything; anyone else what
\* at least one active row of theirs for the file has the flag for
canPerform(user_id, role, file_meta, action, perms, t) ==
    \/ is_admin(role)
    \/ \E p \in perms :
          /\ p.file_id = file_meta.id
          /\ p.user_id = user_id
          /\ Active(p, t)
          /\ Flag(p, action)

\* a grant of one capability on a file to a user, with its expiry; pid is
\* the id of the row (<<>> while the row is not inserted)
GrantRow(file_id, user_id, action, expires_at, pid) ==
    [id |-> pid, file_id |-> file_id, user_id |-> user_id,
     can_read |-> action = "read", can_write |-> action = "write",
     can_delete |-> action = "delete", can_share |-> action = "share",
     can_admin |-> action = "admin", granted_by_id |-> "u0",
     expires_at |-> expires_at]

\* the grants the owner u0 can ask for: read or delete, on either file, to
\* u1, without expiry or already expired
GrantRequests ==
    { GrantRow(file_id, "u1", action, expires_at, <<>>) :
         file_id \in PreIds, action \in {"read", "delete"},
         expires_at \in { <<>>, <<-1>> } }

\* the table after the row of grant g is inserted under the id pid
WithGrant(perms, g, pid) == perms \cup { [g EXCEPT !.id = pid] }

\* a grant is asked for
GrantRequest ==
    /\ Cardinality(gr) + Cardinality(used_ids) < MaxGrants
    /\ \E g \in GrantRequests \ gr : gr' = gr \cup {g}
    /\ UNCHANGED <<rq, lg, now, store, es_index, app_log, used_ids, up, sw>>

\* db.session.add(FilePermission(...)); db.session.commit()
GrantCommit ==
    /\ \E g \in gr :
          /\ db_perms' = WithGrant(db_perms, g, <<"perm", NewId(used_ids)>>)
          /\ gr' = gr \ {g}
    /\ used_ids' = used_ids \cup { NewId(used_ids) }
    /\ UNCHANGED <<rq, lg, now, db_files, db_audit, storage, task_queue, es_index,
                   app_log, up, sw>>

GrantStep == GrantRequest \/ GrantCommit

(* ----------------------- apply_retention_policies ---------------------- *)
\* one run of the periodic task
IdleSweep ==
    [pc |-> "idle", expired_files |-> <<>>, idx |-> 1,
     pending_deletes |-> {}, result |-> "none"]

\* variants of the selection: without the legal-hold filter, and with a
\* cutoff that is not strict
ExpiredFiles_IgnoreHold(files, t) ==
    { f \in files : f.retention_until < t }

ExpiredFiles_NotStrict(files, t) ==
    { f \in files : f.retention_until <= t /\ f.legal_hold = FALSE }

\* FileMetadata.query.filter(retention_until < utcnow(), legal_hold == False)
ExpiredFiles(files, t) ==
    { f \in files : f.retention_until < t /\ f.legal_hold = FALSE }

\* .all() returns the selected rows in an order the query does not fix
Orderings(S) ==
    { s \in [1..Cardinality(S) -> S] : \A i, j \in DOMAIN s : s[i] = s[j] => i = j }

\* the rows and their permissions (cascade='all, delete-orphan') after the
\* DELETEs of a flushed session
RowsAfterDelete(files, ids) == { f \in files : f.id \notin ids }

PermsAfterDelete(perms, ids) == { p \in perms : p.file_id \notin ids }

\* the task ends in the outer except: log and return {'error': ...}
SweepFailed ==
    /\ sw' = [sw EXCEPT !.pc = "done", !.expired_files = <<>>,
                        !.idx = 1, !.pending_deletes = {}, !.result = "error"]
    /\ app_log' = app_log \cup
                    { LogRecord("sweep", "error", "Error in retention policy task") }

\* the task starts and selects the expired files
SweepQuery ==
    /\ sw.pc = "idle"
    /\ \E outcome \in {"ok", "raise"} :
          IF outcome = "ok"
          THEN /\ \E order \in Orderings(ExpiredFiles(db_files, now)) :
                     sw' = [sw EXCEPT !.pc = "file", !.expired_files = order,
                                      !.idx = 1, !.pending_deletes = {},
                                      !.result = "none"]
               /\ UNCHANGED app_log
          ELSE SweepFailed
    /\ UNCHANGED <<aux, now, store, es_index, used_ids, up>>

\* classification in ['confidential', 'restricted']
SecureDeletion(file_meta) == file_meta.classification \in {"confidential", "restricted"}

\* lines 660-663: remove the artifact of a confidential or restricted file
SweepArtifact ==
    /\ sw.pc = "file"
    /\ sw.idx <= Len(sw.expired_files)
    /\ LET file_meta == sw.expired_files[sw.idx]
       IN  IF SecureDeletion(file_meta) /\ file_meta.file_path \in DOMAIN storage
           THEN \E outcome \in {"ok", "raise"} :
                   IF outcome = "ok"
                   THEN /\ storage' = Unlink(storage, file_meta.file_path)
                        /\ sw' = [sw EXCEPT !.pc = "log"]
                        /\ UNCHANGED app_log
                   ELSE \* inner except: log, go on with the next file
                        /\ app_log' = app_log \cup
                              { LogRecord("sweep", "error", "Failed to delete expired file") }
                        /\ sw' = [sw EXCEPT !.idx = @ + 1]
                        /\ UNCHANGED storage
           ELSE /\ sw' = [sw EXCEPT !.pc = "log"]
                /\ UNCHANGED <<storage, app_log>>
    /\ UNCHANGED <<aux, now, db_files, db_perms, db_audit, task_queue, es_index, used_ids, up>>

SweepAuditEntry(file_meta) ==
    AuditEntry("None", "data_retention", "file_deleted", "file", file_meta.id,
               [reason |-> "retention_policy", file_name |-> file_meta.name,
                file_size |-> 0])

\* lines 666-670: log_audit_event(...) and db.session.delete(file_meta).
\* The commit inside log_audit_event is a commit of the task's session: it
\* also flushes the DELETEs of the files marked before; when it raises, the
\* session rolls back and those marks are lost.
SweepLog ==
    /\ sw.pc = "log"
    /\ LET file_meta == sw.expired_files[sw.idx]
       IN  \E outcome \in LogOutcomes :
              /\ db_audit' = LogAuditRows(db_audit, SweepAuditEntry(file_meta), outcome)
              /\ es_index' = LogAuditIndex(es_index, SweepAuditEntry(file_meta), outcome)
              /\ app_log' = LogAuditLog(app_log, "sweep", outcome)
              /\ IF LogCommitted(outcome)
                 THEN /\ db_files' = RowsAfterDelete(db_files, sw.pending_deletes)
                      /\ db_perms' = PermsAfterDelete(db_perms, sw.pending_deletes)
                 ELSE UNCHANGED <<db_files, db_perms>>
              /\ IF LogAuditRaises(outcome)
                 THEN sw' = [sw EXCEPT !.pc = "file", !.idx = @ + 1]
                 ELSE sw' = [sw EXCEPT !.pc = "file", !.idx = @ + 1,
                                !.pending_deletes =
                                    IF outcome = "raise_before_add"
                                    THEN @ \cup { file_meta.id }
                                    ELSE { file_meta.id }]
    /\ UNCHANGED <<aux, now, storage, task_queue, used_ids, up>>

\* line 675: db.session.commit() after the loop
SweepCommit ==
    /\ sw.pc = "file"
    /\ sw.idx > Len(sw.expired_files)
    /\ \E outcome \in {"ok", "raise"} :
          IF outcome = "ok"
          THEN /\ db_files' = RowsAfterDelete(db_files, sw.pending_deletes)
               /\ db_perms' = PermsAfterDelete(db_perms, sw.pending_deletes)
               /\ sw' = [sw EXCEPT !.pc = "done",
                                   !.expired_files = <<>>, !.idx = 1,
                                   !.pending_deletes = {}, !.result = "processed"]
               /\ UNCHANGED app_log
          ELSE /\ SweepFailed
               /\ UNCHANGED <<db_files, db_perms>>
    /\ UNCHANGED <<aux, now, db_audit, storage, task_queue, es_index, used_ids, up>>

SweepStep == SweepQuery \/ SweepArtifact \/ SweepLog \/ SweepCommit

(* ------------------------------ clock ---------------------------------- *)
Tick ==
    /\ now < MaxNow
    /\ now' = now + 1
    /\ UNCHANGED <<aux, store, es_index, app_log, used_ids, up, sw>>

(* ------------------------------- login --------------------------------- *)
LoginWorkers == {"l1", "l2"}       \* login requests in flight together

\* the locals of one login request: what the form carried and the user as
\* User.query...first() loaded it
IdleAttempt ==
    [pc |-> "idle", known |-> FALSE, password_ok |-> FALSE, totp_ok |-> FALSE,
     failed_login_attempts |-> 0, locked_until |-> {}]

\* The account of the one user: its row in users, with locked_until a set
\* that is empty for None and holds the time otherwise.  utcnow is the clock
\* in minutes, sessions the number of sessions created, started the number
\* of login requests received.  streak counts the wrong-password attempts
\* answered since the last login that succeeded.
InitLogin(attempts, two_factor_enabled) ==
    [user |-> [failed_login_attempts |-> attempts, locked_until |-> {},
               two_factor_enabled |-> two_factor_enabled],
     utcnow |-> 0, sessions |-> 0, started |-> 0, streak |-> attempts,
     at |-> [l \in LoginWorkers |-> IdleAttempt]]

\* user.locked_until and user.locked_until > datetime.datetime.utcnow()
Locked(locked_until, utcnow) == \E t \in locked_until : t > utcnow

LoginAuditEntry(action) ==
    AuditEntry("u1", "authentication", action, "None", <<>>, <<>>)

\* log_audit_event(user.id, 'authentication', action), then the response
LoginLogged(l, action) ==
    \E outcome \in LogOutcomes :
       /\ db_audit' = LogAuditRows(db_audit, LoginAuditEntry(action), outcome)
       /\ es_index' = LogAuditIndex(es_index, LoginAuditEntry(action), outcome)
       /\ app_log' = LogAuditLog(app_log, "login", outcome)

\* the form is valid: User.query.filter_by(username=...).first() loads the
\* user, check_password compares the password
LoginQuery(l) ==
    /\ lg.at[l].pc = "idle"
    /\ lg.started < MaxAttempts
    /\ \E known, password_ok, totp_ok \in BOOLEAN :
          lg' = [lg EXCEPT !.started = @ + 1,
                           !.at[l] = [pc |-> "queried", known |-> known,
                                      password_ok |-> password_ok,
                                      totp_ok |-> totp_ok,
                                      failed_login_attempts |->
                                          lg.user.failed_login_attempts,
                                      locked_until |-> lg.user.locked_until]]
    /\ UNCHANGED <<rq, gr, now, store, es_index, app_log, used_ids, up, sw>>

\* no user of that name: 'Invalid username or password.'
LoginUnknown(l) ==
    /\ lg.at[l].pc = "queried"
    /\ ~ lg.at[l].known
    /\ lg' = [lg EXCEPT !.at[l] = IdleAttempt]
    /\ UNCHANGED <<rq, gr, now, store, es_index, app_log, used_ids, up, sw>>

\* the password is right and the account, as loaded, is locked
LoginLocked(l) ==
    /\ lg.at[l].pc = "queried"
    /\ lg.at[l].known /\ lg.at[l].password_ok
    /\ Locked(lg.at[l].locked_until, lg.utcnow)
    /\ lg' = [lg EXCEPT !.at[l] = IdleAttempt]
    /\ UNCHANGED <<rq, gr, now, store, es_index, app_log, used_ids, up, sw>>

\* the password is right, 2FA is enabled and the code is missing or wrong
LoginFailed2FA(l) ==
    /\ lg.at[l].pc = "queried"
    /\ lg.at[l].known /\ lg.at[l].password_ok
    /\ ~ Locked(lg.at[l].locked_until, lg.utcnow)
    /\ lg.user.two_factor_enabled /\ ~ lg.at[l].totp_ok
    /\ LoginLogged(l, "login_failed_2fa")
    /\ lg' = [lg EXCEPT !.at[l] = IdleAttempt]
    /\ UNCHANGED <<rq, gr, now, db_files, db_perms, storage, task_queue, used_ids, up, sw>>

\* the row of the user after the commit of a login that succeeded: the UPDATE
\* carries the attributes whose value differs from the one loaded
UserAfterSuccess(user, loaded) ==
    [user EXCEPT !.failed_login_attempts =
                     IF loaded.failed_login_attempts /= 0 THEN 0 ELSE @,
                 !.locked_until = IF loaded.locked_until /= {} THEN {} ELSE @]

\* the login succeeds: the counters are reset, the session is created, then
\* db.session.commit()
LoginSuccess(l) ==
    /\ lg.at[l].pc = "queried"
    /\ lg.at[l].known /\ lg.at[l].password_ok
    /\ ~ Locked(lg.at[l].locked_until, lg.utcnow)
    /\ lg.user.two_factor_enabled => lg.at[l].totp_ok
    /\ \E outcome \in {"ok", "raise"} :
          IF outcome = "ok"
          THEN lg' = [lg EXCEPT !.user = UserAfterSuccess(lg.user, lg.at[l]),
                                !.sessions = @ + 1, !.streak = 0,
                                !.at[l].pc = "succeeded"]
          ELSE lg' = [lg EXCEPT !.sessions = @ + 1, !.at[l] = IdleAttempt]
    /\ UNCHANGED <<rq, gr, now, store, es_index, app_log, used_ids, up, sw>>

\* user.failed_login_attempts += 1, on the user as loaded
FailedAttempts(loaded) == loaded.failed_login_attempts + 1

\* the row of the user after the commit of a failed login
UserAfterFailure(user, loaded, utcnow) ==
    [user EXCEPT !.failed_login_attempts = FailedAttempts(loaded),
                 !.locked_until =
                     IF FailedAttempts(loaded) >= MAX_FAILED_ATTEMPTS
                     THEN {utcnow + LOCKOUT_MINUTES} ELSE @]

\* the password is wrong: count the attempt, lock the account at the fifth,
\* db.session.commit()
LoginFailure(l) ==
    /\ lg.at[l].pc = "queried"
    /\ lg.at[l].known /\ ~ lg.at[l].password_ok
    /\ \E outcome \in {"ok", "raise"} :
          IF outcome = "ok"
          THEN lg' = [lg EXCEPT !.user = UserAfterFailure(lg.user, lg.at[l], lg.utcnow),
                                !.streak = @ + 1, !.at[l].pc = "failed"]
          ELSE lg' = [lg EXCEPT !.at[l] = IdleAttempt]
    /\ UNCHANGED <<rq, gr, now, store, es_index, app_log, used_ids, up, sw>>

\* log_audit_event(user.id, 'authentication', 'login_success' or
\* 'login_failed') and the response
LoginAudit(l) ==
    /\ lg.at[l].pc \in {"succeeded", "failed"}
    /\ LoginLogged(l, IF lg.at[l].pc = "succeeded"
                      THEN "login_success" ELSE "login_failed")
    /\ lg' = [lg EXCEPT !.at[l] = IdleAttempt]
    /\ UNCHANGED <<rq, gr, now, db_files, db_perms, storage, task_queue, used_ids, up, sw>>

\* time passes
LoginTick ==
    /\ lg.utcnow < MaxLoginTicks * LOCKOUT_MINUTES
    /\ lg' = [lg EXCEPT !.utcnow = @ + LOCKOUT_MINUTES]
    /\ UNCHANGED <<rq, gr, now, store, es_index, app_log, used_ids, up, sw>>

LoginStep(l) ==
    \/ LoginQuery(l)
    \/ LoginUnknown(l)
    \/ LoginLocked(l)
    \/ LoginFailed2FA(l)
    \/ LoginSuccess(l)
    \/ LoginFailure(l)
    \/ LoginAudit(l)

(* ----------------------- process_file_content -------------------------- *)
\* the file types whose text is extracted
EXTRACTED_TYPES == {"pdf", "doc", "docx", "txt", "rtf"}

\* What one run of the task can meet:
\*   ok              the text is extracted and es.index succeeds
\*   extract_raises  textract raises (warning only, content stays "")
\*   index_raises    es.index raises (error only)
\*   no_es           es is None
\*   raise           the query of the row raises (outer except)
ProcessOutcomes == {"ok", "extract_raises", "index_raises", "no_es", "raise"}

\* variant of the document id: one generated by the index at every call
DocumentId_Generated(index, file_id) == <<"doc", Cardinality(index)>>

\* es.index(index='file-content', id=file_id, ...)
DocumentId(index, file_id) == file_id

\* textract.process(file_meta.file_path).decode('utf-8') for the extracted
\* types (file_type is stored in lower case), "" otherwise or on a failure
ExtractedContent(fs, file_meta, outcome) ==
    IF /\ file_meta.file_type \in EXTRACTED_TYPES
       /\ outcome /= "extract_raises"
       /\ file_meta.file_path \in DOMAIN fs
    THEN fs[file_meta.file_path]
    ELSE <<>>

\* the document of a file
ContentDocument(index, file_meta, content) ==
    [index |-> "file-content", id |-> DocumentId(index, file_meta.id),
     body |-> [file_id |-> file_meta.id,
               organization_id |-> file_meta.organization_id,
               name |-> file_meta.name, content |-> content,
               file_type |-> file_meta.file_type,
               classification |-> file_meta.classification,
               created_by |-> file_meta.created_by_id]]

\* es.index: the document takes the place of the one with its id, if any
IndexDocument(index, doc) ==
    { d \in index : ~ (d.index = doc.index /\ d.id = doc.id) } \cup {doc}

\* the search index after one run of the task for file_id
ProcessIndex(index, files, fs, file_id, outcome) ==
    IF outcome = "raise" \/ file_id \notin FileIds(files)
    THEN index
    ELSE LET file_meta == CHOOSE f \in files : f.id = file_id
             content == ExtractedContent(fs, file_meta, outcome)
         IN  IF outcome = "ok" /\ content /= <<>>
             THEN IndexDocument(index, ContentDocument(index, file_meta, content))
             ELSE index

\* the application log after one run of the task for file_id
ProcessLog(log, files, fs, file_id, outcome) ==
    CASE outcome = "raise" ->
            log \cup { LogRecord("task", "error", "Error processing file") }
      [] file_id \notin FileIds(files) -> log
      [] OTHER ->
            LET file_meta == CHOOSE f \in files : f.id = file_id
                failed == \/ outcome = "extract_raises"
                          \/ file_meta.file_path \notin DOMAIN fs
            IN  IF file_meta.file_type \in EXTRACTED_TYPES /\ failed
                THEN log \cup { LogRecord("task", "warning", "Failed to extract content") }
                ELSE IF outcome = "index_raises"
                        /\ ExtractedContent(fs, file_meta, outcome) /= <<>>
                     THEN log \cup { LogRecord("task", "error",
                                               "Failed to index file content") }
                     ELSE log

\* one run of the task for a file id handed to it; a task can be delivered
\* again (retry after a crash), so the id stays with the queue
ProcessFileContent ==
    /\ \E file_id \in task_queue, outcome \in ProcessOutcomes :
          /\ es_index' = ProcessIndex(es_index, db_files, storage, file_id, outcome)
          /\ app_log' = ProcessLog(app_log, db_files, storage, file_id, outcome)
    /\ UNCHANGED <<aux, now, store, used_ids, up, sw>>

(* --------------------------- specification ----------------------------- *)
PreName == <<"p", ".", "c">>

PreContent == <<"h", "i">>

\* a row stored by an earlier upload of user u0
PreRow(id, classification, legal_hold, retention_until) ==
    [id |-> id, organization_id |-> "o1",
     name |-> PreName, original_name |-> PreName,
     file_path |-> FilePath(<<"docs">>, id, "c"), file_type |-> "c",
     size |-> Len(PreContent), checksum |-> SHA256(PreContent),
     classification |-> classification, legal_hold |-> legal_hold,
     retention_until |-> retention_until, created_by_id |-> "u0"]

\* P1 is restricted and long expired, with or without legal hold; P2 is
\* internal, without legal hold, and expires when day 0 is over
InitStore ==
    /\ now = 0
    /\ \E h \in BOOLEAN :
          db_files = { PreRow(P1, "restricted", h, -3000),
                       PreRow(P2, "internal", FALSE, 0) }
    /\ db_perms = { FullGrant(id, "u0", <<"perm", id>>) : id \in PreIds }
    /\ db_audit = <<>>
    /\ storage = [ path \in { FilePath(<<"docs">>, id, "c") : id \in PreIds } |-> PreContent ]
    /\ task_queue = {}
    /\ es_index = {}
    /\ app_log = {}
    /\ used_ids = {}
    /\ sw = IdleSweep
    /\ rq = IdleRole
    /\ gr = {}

Init ==
    /\ InitStore
    /\ up = [w \in Workers |-> IdleUpload]
    /\ lg = InitLogin(0, FALSE)

Next ==
    \/ \E w \in Workers : UploadStep(w)
    \/ SweepStep
    \/ Tick

Spec == Init /\ [][Next]_vars

\* upload requests alone, with any folder path and any classification a
\* client can send
UploadStepAnyFolder(w) ==
    \/ UploadStartFrom(w, AllFolderPaths, AllClassifications, AllIncoming, MaxBatch)
    \/ UploadBody(w)

NextInputs == \E w \in Workers : UploadStepAnyFolder(w)

SpecInputs == Init /\ [][NextInputs]_vars

\* requests to role-guarded views alone
NextAccess == RoleStep

SpecAccess == Init /\ [][NextAccess]_vars

\* uploads, of text files too, and the runs of the content task
ExtractFileNames == FileNames \cup { <<"a", ".", "t", "x", "t">> }
ExtractIncoming == [filename : ExtractFileNames, content : Contents]

UploadStepExtract(w) ==
    \/ UploadStartFrom(w, FolderPaths, FormClassifications, ExtractIncoming, MaxBatch)
    \/ UploadBody(w)

NextExtract ==
    \/ \E w \in Workers : UploadStepExtract(w)
    \/ ProcessFileContent

SpecExtract == Init /\ [][NextExtract]_vars

\* login requests alone, two of them at a time
NextLogin ==
    \/ \E l \in LoginWorkers : LoginStep(l)
    \/ LoginTick

\* the user has failed to log in up to four times in a row before, and has
\* 2FA enabled or not
InitAccounts ==
    /\ InitStore
    /\ up = [w \in Workers |-> IdleUpload]
    /\ \E attempts \in 0..(MAX_FAILED_ATTEMPTS - 1), two_factor_enabled \in BOOLEAN :
          lg = InitLogin(attempts, two_factor_enabled)

SpecLogin == InitAccounts /\ [][NextLogin]_vars

\* grants of permissions alone
NextGrants == GrantStep

SpecGrants == Init /\ [][NextGrants]_vars

\* two upload requests served at the same time
InitConcurrent ==
    /\ InitStore
    /\ up = [w \in ConcurrentWorkers |-> IdleUpload]
    /\ lg = InitLogin(0, FALSE)

UploadStepConcurrent(w) ==
    \/ UploadStartFrom(w, FolderPaths, FormClassifications, Incoming, MaxBatchConcurrent)
    \/ UploadBody(w)

NextConcurrent == \E w \in ConcurrentWorkers : UploadStepConcurrent(w)

SpecConcurrent == InitConcurrent /\ [][NextConcurrent]_vars

(* ------------------------------ claims --------------------------------- *)
FullCapability(p) ==
    p.can_read /\ p.can_write /\ p.can_delete /\ p.can_share /\ p.can_admin

\* positions of the audit entries with this action about this resource
AuditEntries(action, resource_id) ==
    { k \in DOMAIN db_audit : /\ db_audit[k].action = action
                              /\ db_audit[k].resource_id = resource_id }

\* C1: in every visible state each FileMetadata row has at least one
\* FilePermission row granting all five capabilities (the metadata insert
\* and the creator's full grant become visible together or not at all).
C1_FileHasFullGrant ==
    \A f \in db_files : \E p \in PermsOf(db_perms, f.id) : FullCapability(p)

\* C2: no step removes a FileMetadata row with legal_hold = true, nor its
\* backing artifact, however far in the past its retention_until is.
C2_LegalHoldNeverSwept ==
    [][\A f \in db_files :
          f.legal_hold => /\ f \in db_files'
                          /\ (f.file_path \in DOMAIN storage => f.file_path \in DOMAIN storage')]_vars

\* a sweep has run to its end past a long-expired row under legal hold: that
\* row and its artifact are there, the expired row without hold is gone
C2_Witness ==
    /\ sw.result = "processed"
    /\ P2 \notin FileIds(db_files)
    /\ \E f \in db_files : /\ f.id = P1 /\ f.legal_hold
                           /\ f.retention_until < now - 1000
                           /\ f.file_path \in DOMAIN storage

\* C3: whenever a FileMetadata row is removed, an audit entry file_deleted
\* with reason retention_policy and the file's id was already stored.
C3_LogBeforeDelete ==
    [][\A f \in db_files :
          f.id \notin FileIds(db_files') =>
             \E k \in AuditEntries("file_deleted", f.id) :
                db_audit[k].details.reason = "retention_policy"]_vars

\* the files for which the request has passed the permission commit
Granted(w) ==
    { up[w].uploaded_files[k] : k \in DOMAIN up[w].uploaded_files }
      \cup (IF up[w].pc \in {"perm_committed", "dispatched"}
            THEN { up[w].cur.file_id } ELSE {})

\* C4: once upload_file has committed a file and its grant, exactly one
\* FilePermission row exists for the file; it names the uploader and has
\* all five capabilities.
C4_OneFullGrantForCreator ==
    \A w \in Workers : \A id \in Granted(w) :
       /\ Cardinality(PermsOf(db_perms, id)) = 1
       /\ \A p \in PermsOf(db_perms, id) : p.user_id = up[w].user /\ FullCapability(p)

C4_Witness ==
    \E w \in Workers : /\ up[w].pc = "perm_committed"
                       /\ up[w].cur.file_id \in FileIds(db_files)

\* the step of request w that takes the next file of the batch
TakesFile(w) ==
    /\ up[w].pc = "loop"
    /\ up[w].i <= up[w].n
    /\ up'[w] /= up[w]

\* the filename is empty or its extension is not in the allowed set
NotAcceptable(filename) ==
    \/ filename = <<>>
    \/ "." \notin Range(filename)
    \/ Str(lower(RSplitExt(filename))) \notin ALLOWED_EXTENSIONS

NoSideEffect ==
    /\ store' = store
    /\ es_index' = es_index
    /\ used_ids' = used_ids

\* C5 as stated: a file with an empty filename or a disallowed extension is
\* rejected with an error, before any side effect.
C5_RejectedWithError ==
    [][\A w \in Workers :
          TakesFile(w) /\ NotAcceptable(up'[w].file.filename) =>
             /\ NoSideEffect
             /\ up'[w].pc = "done"
             /\ up'[w].resp.status = 400]_vars

\* C5 (amended): a file with a disallowed extension is rejected with a 400
\* error and a file with an empty filename is skipped without an error, the
\* loop going on with the next file; in both cases before any side effect:
\* no artifact, no FileMetadata row, no audit entry.
C5_RejectedOrSkipped ==
    [][\A w \in Workers :
          TakesFile(w) /\ NotAcceptable(up'[w].file.filename) =>
             /\ NoSideEffect
             /\ IF up'[w].file.filename = <<>>
                THEN /\ up'[w].pc = "loop"
                     /\ up'[w].i = up[w].i + 1
                     /\ up'[w].resp = NoResp
                ELSE /\ up'[w].pc = "done"
                     /\ up'[w].resp.status = 400]_vars

\* a request has been ended by a file with a disallowed extension
C5_Witness ==
    \E w \in Workers : /\ up[w].pc = "done"
                       /\ up[w].resp.status = 400
                       /\ up[w].file.filename = <<"a", ".", "x">>

\* C6 as stated: a rejected or failing file does not keep the later files of
\* the batch from being processed, and the response reports the files
\* committed so far.
C6_FilesIndependent ==
    \A w \in Workers :
       up[w].pc = "done" /\ up[w].n > 0 =>
          /\ up[w].i >= up[w].n
          /\ up[w].resp.files = up[w].uploaded_files

\* C6 (amended): files are committed one at a time and no step of a request
\* takes back a committed file; but the first file that is rejected or fails
\* ends the request with an error response that carries no list of files,
\* and the list of committed files is returned only when the loop has gone
\* through the whole batch.
C6_NoRollbackFirstFailureEnds ==
    /\ [](\A w \in Workers :
            up[w].pc = "done" =>
               IF up[w].resp.status = 200
               THEN up[w].i > up[w].n /\ up[w].resp.files = up[w].uploaded_files
               ELSE up[w].resp.status \in {400, 500} /\ up[w].resp.files = <<>>)
    /\ [][\A w \in Workers :
            up'[w] /= up[w] => db_files \subseteq db_files' /\ db_perms \subseteq db_perms']_vars

\* a request ended by the rejection of its second file, the first one
\* committed and still there
C6_Witness ==
    \E w \in Workers : /\ up[w].pc = "done"
                       /\ up[w].resp.status = 400
                       /\ up[w].file.filename = <<"a", ".", "x">>
                       /\ Len(up[w].uploaded_files) = 1
                       /\ up[w].uploaded_files[1] \in FileIds(db_files)

\* C7: the sweep selects, and removes the artifact or the row of, only files
\* whose retention_until is strictly earlier than the current time; a file
\* whose upload is in flight or was committed during the run is never
\* selected.
C7_SweepOnlyExpired ==
    /\ [](\A k \in DOMAIN sw.expired_files :
            /\ sw.expired_files[k].retention_until < now
            /\ sw.expired_files[k].id \notin used_ids)
    /\ [][/\ \A f \in db_files :
               f.id \notin FileIds(db_files') => f.retention_until < now
          /\ \A path \in DOMAIN storage \ DOMAIN storage' :
               \E k \in DOMAIN sw.expired_files :
                  /\ sw.expired_files[k].file_path = path
                  /\ sw.expired_files[k].retention_until < now]_vars

\* a sweep has removed an expired row while an upload was in flight, whose
\* row is there
C7_Witness ==
    /\ sw.result = "processed"
    /\ P2 \notin FileIds(db_files)
    /\ \E w \in Workers : /\ up[w].pc = "meta_committed"
                          /\ up[w].cur.file_id \in FileIds(db_files)

\* C8: the file_deleted entry and the removal of the row are one
\* transactional unit: in no state does the entry exist while the row is
\* present, nor is the row gone while the entry is absent.
C8_LogAndDeleteAtomic ==
    \A id \in PreIds :
       (AuditEntries("file_deleted", id) /= {}) <=> (id \notin FileIds(db_files))

\* C9: when the primary write of an audit entry fails, the caller is
\* notified, so that the triggering request is not reported as a success.
C9_CallerNotified ==
    \A w \in Workers :
       LogRecord(w, "error", "Failed to log audit event") \in app_log =>
          up[w].resp.status /= 200

\* the rows committed by request w
CommittedBy(w) ==
    { f \in db_files :
         \/ f.id = up[w].cur.file_id
         \/ \E k \in DOMAIN up[w].uploaded_files : up[w].uploaded_files[k] = f.id }

\* C10: every file committed by upload_file has exactly one file_uploaded
\* audit entry, referencing its id, the uploader, its size and its name
\* (stated of the requests that have returned).
C10_OneUploadAuditEntry ==
    \A w \in Workers :
       up[w].pc = "done" =>
          \A f \in CommittedBy(w) :
             /\ Cardinality(AuditEntries("file_uploaded", f.id)) = 1
             /\ \A k \in AuditEntries("file_uploaded", f.id) :
                   /\ db_audit[k].user_id = f.created_by_id
                   /\ db_audit[k].details.file_size = f.size
                   /\ db_audit[k].details.file_name = f.original_name

\* C11: when the hand-off of the processing task fails (the step after the
\* permission commit leaves the task queue as it was), the upload of the
\* file does not fail: the request goes on to record the file's audit entry
\* and has not answered with an error.
C11_DispatchFailureTolerated ==
    [][\A w \in Workers :
          /\ up[w].pc = "perm_committed"
          /\ up'[w] /= up[w]
          /\ task_queue' = task_queue
          => /\ up'[w].pc = "dispatched"
             /\ up'[w].resp = NoResp]_vars

\* C12: when a sweep ends normally, the row of every file it selected is
\* removed unless the removal of that file's own artifact failed: the failure
\* met while processing one file never leaves the row of another file behind.
C12_SweepFaultIsolation ==
    [][/\ sw.pc = "file"
       /\ sw'.pc = "done"
       /\ sw'.result = "processed"
       => \A k \in DOMAIN sw.expired_files :
             LET file_meta == sw.expired_files[k]
             IN  \/ ~ SecureDeletion(file_meta)
                 \/ file_meta.file_path \notin DOMAIN storage
                 => file_meta.id \notin FileIds(db_files')]_vars

\* C13: whenever the sweep removes the row of a file, whatever the file's
\* classification, the file's artifact is no longer in storage: no artifact
\* is left without its row.
C13_ArtifactGoneBeforeRow ==
    [][\A f \in db_files :
          f.id \notin FileIds(db_files') => f.file_path \notin DOMAIN storage']_vars

\* C14: whatever folder_path the client sends, every artifact in storage
\* lies inside the upload root.
C14_ArtifactsInsideRoot ==
    \A path \in DOMAIN storage : InsideRoot(path)

\* the file a request has saved and not yet finished with
InHand(w) == up[w].pc \in {"saved", "meta_committed", "perm_committed", "dispatched"}

CurPath(w) == FilePath(up[w].folder_path, up[w].cur.file_id, up[w].cur.file_extension)

\* C15: two uploads served concurrently, with the same original filename and
\* the same folder, get distinct file ids and distinct stored paths in every
\* interleaving; all committed rows differ in id and in path, and no step
\* rewrites or removes an artifact that is already stored.
C15_ConcurrentUploadsDistinct ==
    /\ [](\A v, w \in DOMAIN up :
            /\ v /= w /\ InHand(v) /\ InHand(w)
            /\ up[v].cur.original_name = up[w].cur.original_name
            /\ up[v].folder_path = up[w].folder_path
            => /\ up[v].cur.file_id /= up[w].cur.file_id
               /\ CurPath(v) /= CurPath(w))
    /\ [](\A f, g \in db_files : f.id = g.id \/ f.file_path = g.file_path => f = g)
    /\ [][\A path \in DOMAIN storage :
             path \in DOMAIN storage' /\ storage'[path] = storage[path]]_vars

\* both requests have committed the row of a file of the same name in the
\* same folder, and both artifacts are stored in full
C15_Witness ==
    /\ DOMAIN up = ConcurrentWorkers
    /\ \A w \in DOMAIN up :
          /\ up[w].pc = "meta_committed"
          /\ up[w].cur.original_name = <<"a", ".", "C">>
          /\ up[w].folder_path = <<"docs">>
          /\ up[w].cur.file_id \in FileIds(db_files)
          /\ CurPath(w) \in DOMAIN storage
          /\ storage[CurPath(w)] = up[w].file.content

\* C16: no FileMetadata row carries the empty placeholder checksum, and at
\* the commit of a row its checksum is the SHA-256 digest, and its size the
\* length, of the bytes stored at its file_path.
C16_ChecksumOfStoredBytes ==
    /\ [](\A f \in db_files : f.checksum /= <<>>)
    /\ [][\A f \in db_files' \ db_files :
             /\ f.file_path \in DOMAIN storage'
             /\ f.checksum = SHA256(storage'[f.file_path])
             /\ f.size = Len(storage'[f.file_path])]_vars

\* the second file of a batch has just been committed: its row carries the
\* digest of the bytes of the upload
C16_Witness ==
    \E w \in Workers :
       /\ up[w].pc = "meta_committed"
       /\ Len(up[w].uploaded_files) = 1
       /\ \E f \in db_files : /\ f.id = up[w].cur.file_id
                              /\ f.checksum = SHA256(up[w].file.content)
                              /\ up[w].file.content /= <<>>

\* C17: when a request has been answered 403 by requires_role, audit_logs
\* holds an access_denied entry with the required role and the role the user
\* holds.
C17_DenialAuditedBefore403 ==
    rq.status = 403 =>
       \E k \in DOMAIN db_audit :
          db_audit[k] = RoleAuditEntry(rq.user, rq.required_role, rq.user_role)

\* C18: when saving the file fails (the step that takes a file ends the
\* request with status 500), the step creates no FileMetadata row, no
\* FilePermission row and no audit entry, and leaves no artifact, whole or
\* partial, in storage.
C18_FailedSaveLeavesNothing ==
    [][\A w \in Workers :
          TakesFile(w) /\ up'[w].pc = "done" /\ up'[w].resp.status = 500 =>
             /\ db_files' = db_files
             /\ db_perms' = db_perms
             /\ db_audit' = db_audit
             /\ storage' = storage]_vars

\* what every user of either role may do with every file, and see listed
Effective(perms) ==
    { x \in {"u0", "u1"} \X {"user", "admin"} \X FileIds(db_files) \X Capabilities :
         \E f \in db_files :
            f.id = x[3] /\ canPerform(x[1], x[2], f, x[4], perms, now) }

Listed(perms) ==
    { x \in {"u0", "u1"} \X {"user", "admin"} \X FileIds(db_files) :
         \E f \in db_files : f.id = x[3] /\ IndexLists(x[1], x[2], f, perms) }

C21_ClassificationInEnum ==
    \A f \in db_files : f.classification \in CLASSIFICATIONS

\* the total order of the roles, lowest first
RoleOrder == <<"user", "manager", "admin", "super_admin">>

\* the position of a role of the order
Rank(role) == CHOOSE k \in DOMAIN RoleOrder : RoleOrder[k] = role

\* a role that is not one of the four counts as 'user'
HeldRole(role) == IF role \in Range(RoleOrder) THEN role ELSE "user"

\* the user's role ranks at or above the required role
RanksAtOrAbove(role, required_role) ==
    /\ required_role \in Range(RoleOrder)
    /\ Rank(HeldRole(role)) >= Rank(required_role)

\* C22: requires_role(r) lets the request of an existing user through to the
\* view exactly when the user's role ranks at or above r in the order
\* user < manager < admin < super_admin, an unknown role of the user counting
\* as 'user' and an unknown required role admitting nobody; otherwise the
\* request is on its way to, or has got, the answer 403.
C22_AdmitsByRank ==
    /\ rq.pc = "denied" => ~ RanksAtOrAbove(rq.user_role, rq.required_role)
    /\ rq.pc = "done" /\ rq.status /= 401 =>
          /\ rq.status \in {200, 403}
          /\ rq.status = 200 <=> RanksAtOrAbove(rq.user_role, rq.required_role)

\* a user with a role the hierarchy does not know has been let through to a
\* view that requires 'user'
C22_Witness ==
    /\ rq.pc = "done"
    /\ rq.status = 200
    /\ rq.user_role = "guest"
    /\ rq.required_role = "user"


StoredExtension(f) == f.file_path.stored[2]

\* C26: every row committed by upload_file has a file_type, and an extension
\* of its stored filename, that is a member of ALLOWED_EXTENSIONS.
C26_StoredExtensionAllowed ==
    \A f \in db_files :
       f.id \in used_ids => /\ f.file_type \in ALLOWED_EXTENSIONS
                            /\ StoredExtension(f) \in ALLOWED_EXTENSIONS


\* the documents of the index file-content about a file
ContentDocuments(index, file_id) ==
    { d \in index : d.index = "file-content" /\ d.body.file_id = file_id }

\* C24: process_file_content is idempotent: two runs for the same file id
\* leave the search index as one run does, whatever each run meets; the index
\* never holds two documents of one file, and no run changes the store.
C24_ProcessIdempotent ==
    /\ [](\A file_id \in task_queue :
            /\ \A o1, o2 \in ProcessOutcomes :
                  ProcessIndex(ProcessIndex(es_index, db_files, storage, file_id, o1),
                               db_files, storage, file_id, o2)
                     \in { ProcessIndex(es_index, db_files, storage, file_id, o) :
                              o \in ProcessOutcomes }
            /\ Cardinality(ContentDocuments(es_index, file_id)) <= 1)
    /\ [][up' = up => UNCHANGED store]_vars

\* the task of the one file uploaded has run twice: a run has indexed its
\* document and another has failed at es.index
C24_Witness ==
    /\ Cardinality(task_queue) = 1
    /\ \A file_id \in task_queue : ContentDocuments(es_index, file_id) /= {}
    /\ LogRecord("task", "error", "Failed to index file content") \in app_log


\* C25: the wrong-password attempt that is the fifth in a row, or a later
\* one, leaves locked_until 30 minutes ahead; and no step creates a session
\* while the locked_until of the user is in the future.
C25_LockoutHolds ==
    [][/\ (lg'.streak = lg.streak + 1 /\ lg'.streak >= MAX_FAILED_ATTEMPTS)
             => lg'.user.locked_until = {lg.utcnow + LOCKOUT_MINUTES}
       /\ lg'.sessions > lg.sessions
             => ~ Locked(lg.user.locked_until, lg.utcnow)]_vars

====
